---- MODULE Spec2Model ----
(***************************************************************************)
(* tailwind-raw-reorder, src/index.mjs: the move-diff engine               *)
(* (findMovedClasses, lcs, filterCommonClasses) and the lifecycle of the   *)
(* highlight decorations (highlightMovedClasses, clearDecorations, the     *)
(* revert listener, the timer and the configuration listener).             *)
(*                                                                         *)
(* A JavaScript string is a sequence of one-character strings; offsets are *)
(* 0-based as in JavaScript, sequence indices 1-based as in TLA+.          *)
(***************************************************************************)
EXTENDS Integers, Sequences, FiniteSets, TLC

VARIABLES
    workspaceFolder,          \* (workspace.workspaceFolders || [])[0] is defined
    IgnoreConfigNotFound,     \* the setting read when the module loads
    currentHighlightColor,
    currentHighlightTimeout,
    activeDecorationTypes,    \* handles (indices of decorationTypes), in push order
    decorationTypes,          \* every TextEditorDecorationType created so far
    cycles,                   \* the listener/timer pairs whose timer is pending
    docText,                  \* the text of each open document
    activeEditor,             \* window.activeTextEditor
    output,                   \* what the latest command run wrote for the user
    arg1, arg2,               \* the arguments of a findMovedClasses call
    movedClasses,             \* its result
    pc,                       \* the position of that call
    langConfig,               \* the setting classRegex read when the module loads
    editorLangId,             \* editor.document.languageId of each document
    matchers                  \* the entry a command run resolved, and its matchers

vars == <<workspaceFolder, IgnoreConfigNotFound, currentHighlightColor,
          currentHighlightTimeout, activeDecorationTypes, decorationTypes,
          cycles, docText, activeEditor, output, arg1, arg2, movedClasses, pc,
          langConfig, editorLangId, matchers>>

\* what the resolution of the matchers reads and writes
resolverVars == <<langConfig, editorLangId, matchers>>

\* ------------------------------------------------------------------ bounds
\* the most listener/timer pairs with a pending timer at one time
MaxCycles == 2
\* the most decoration handles created in one behaviour
MaxHandles == 2
\* longest second argument (str2) of findMovedClasses that is enumerated
MaxLen == 5
\* longest first argument (str1) of findMovedClasses that is enumerated
MaxLenA == 3

\* ----------------------------------------------------------------- strings
WS == " "
Letters == {"a", "b"}
Alphabet == Letters \cup {WS}

\* an absent argument (undefined / null)
Undefined == <<"undefined">>

RECURSIVE StringsOfLen(_)
StringsOfLen(n) ==
    IF n = 0 THEN {<<>>}
    ELSE {Append(s, c) : s \in StringsOfLen(n - 1), c \in Alphabet}

Strings(n) == UNION {StringsOfLen(k) : k \in 0..n}

Range(seq) == {seq[i] : i \in DOMAIN seq}

Max(x, y) == IF x >= y THEN x ELSE y

SetMin(S) == CHOOSE x \in S : \A y \in S : x <= y

\* String.prototype.split(/\s+/): the pieces between maximal runs of
\* whitespace; a leading or trailing run yields an empty first or last piece.
RECURSIVE SplitFrom(_, _, _, _)
SplitFrom(str, i, cur, acc) ==
    IF i > Len(str) THEN Append(acc, cur)
    ELSE IF str[i] = WS
         THEN IF i > 1 /\ str[i - 1] = WS
              THEN SplitFrom(str, i + 1, cur, acc)
              ELSE SplitFrom(str, i + 1, <<>>, Append(acc, cur))
         ELSE SplitFrom(str, i + 1, Append(cur, str[i]), acc)

Split(str) == SplitFrom(str, 1, <<>>, <<>>)

\* String.prototype.indexOf(pat, from): the least offset k >= from at which
\* pat occurs in str, or -1; from is clamped to 0..length.
IndexOf(str, pat, from) ==
    LET n == Len(str)
        m == Len(pat)
        start == IF from < 0 THEN 0 ELSE IF from > n THEN n ELSE from
        hits == {k \in start..(n - m) : SubSeq(str, k + 1, k + m) = pat}
    IN  IF hits = {} THEN -1 ELSE SetMin(hits)

\* !str of JavaScript: the empty string and an absent value are falsy
Falsy(str) == str = <<>> \/ str = Undefined

\* ------------------------------------------------------------ move diff
\* lcs with the backtracking loop starting one element late
lcs_SkipFirst(arr1, arr2) ==
    LET n == Len(arr1)
        m == Len(arr2)
        dp[i \in 0..n, j \in 0..m] ==
            IF i = 0 \/ j = 0 THEN 0
            ELSE IF arr1[i] = arr2[j] THEN dp[i - 1, j - 1] + 1
            ELSE Max(dp[i - 1, j], dp[i, j - 1])
        RECURSIVE back(_, _)
        back(i, j) ==
            IF ~(i > 1 /\ j > 1) THEN {}
            ELSE IF arr1[i] = arr2[j] THEN back(i - 1, j - 1) \cup {arr1[i]}
            ELSE IF dp[i - 1, j] >= dp[i, j - 1] THEN back(i - 1, j)
            ELSE back(i, j - 1)
    IN  back(n, m)

\* lcs(arr1, arr2): the dynamic-programming table, then the backtracking loop
\* that collects the matched elements; the result is the Set of their values.
lcs(arr1, arr2) ==
    LET n == Len(arr1)
        m == Len(arr2)
        dp[i \in 0..n, j \in 0..m] ==
            IF i = 0 \/ j = 0 THEN 0
            ELSE IF arr1[i] = arr2[j] THEN dp[i - 1, j - 1] + 1
            ELSE Max(dp[i - 1, j], dp[i, j - 1])
        RECURSIVE back(_, _)
        back(i, j) ==
            IF ~(i > 0 /\ j > 0) THEN {}
            ELSE IF arr1[i] = arr2[j] THEN back(i - 1, j - 1) \cup {arr1[i]}
            ELSE IF dp[i - 1, j] >= dp[i, j - 1] THEN back(i - 1, j)
            ELSE back(i, j - 1)
    IN  back(n, m)

\* the search position that skips ahead of the recorded one
SeenOr_SkipAhead(seen, className, index) ==
    IF className \in DOMAIN seen /\ seen[className] # 0
    THEN seen[className] + Len(className) + 1 ELSE index

\* seen.get(className) || index, with index = 0 never advanced
SeenOr(seen, className, index) ==
    IF className \in DOMAIN seen /\ seen[className] # 0
    THEN seen[className] ELSE index

\* the .map callback of filterCommonClasses over classes[k..], threading the
\* Map seen
RECURSIVE MapClasses(_, _, _, _)
MapClasses(str, classes, k, seen) ==
    IF k > Len(classes) THEN <<>>
    ELSE LET className == classes[k]
             startIndex == IndexOf(str, className, SeenOr(seen, className, 0))
             seen2 == [c \in DOMAIN seen \cup {className} |->
                          IF c = className THEN startIndex + Len(className)
                          ELSE seen[c]]
         IN  <<[className |-> className, charStart |-> startIndex]>>
               \o MapClasses(str, classes, k + 1, seen2)

Keep(commonSet, classObj) == classObj.className \notin commonSet

\* filterCommonClasses keeping the classes that are in the set
filterCommonClasses_Inverted(str, commonSet) ==
    SelectSeq(MapClasses(str, Split(str), 1, <<>>),
              LAMBDA classObj : ~Keep(commonSet, classObj))

\* filterCommonClasses(str, commonSet)
filterCommonClasses(str, commonSet) ==
    SelectSeq(MapClasses(str, Split(str), 1, <<>>),
              LAMBDA classObj : Keep(commonSet, classObj))

\* findMovedClasses without its guard
findMovedClasses_NoGuard(str1, str2) ==
    filterCommonClasses(str2, lcs(Split(str1), Split(str2)))

\* findMovedClasses that filters the classes of str1
findMovedClasses_FilterStr1(str1, str2) ==
    IF Falsy(str1) \/ Falsy(str2) THEN <<>>
    ELSE filterCommonClasses(str1, lcs(Split(str1), Split(str2)))

\* findMovedClasses(str1, str2)
findMovedClasses(str1, str2) ==
    IF Falsy(str1) \/ Falsy(str2) THEN <<>>
    ELSE filterCommonClasses(str2, lcs(Split(str1), Split(str2)))

\* ------------------------------------------------------------ documents
Docs == {"d1", "d2"}
NoEditor == "none"

AB == <<"a", WS, "b">>
BA == <<"b", WS, "a">>

\* a document is the sequence of its class lists, in text order; the markup
\* between them is one character each and never changes
DocTexts == {<<BA, AB>>}

\* getTextMatch (utils.mjs): the matches of a document, left to right, each
\* with its absolute start offset
RECURSIVE StartOffset(_, _)
StartOffset(doc, k) ==
    IF k = 1 THEN 1 ELSE StartOffset(doc, k - 1) + Len(doc[k - 1]) + 1

getTextMatch(doc) ==
    [k \in 1..Len(doc) |-> [text |-> doc[k], startPosition |-> StartOffset(doc, k)]]

\* ------------------------------------------------------------ canonicalizer
\* A ranking context (getTailwindConfig, config.mjs) orders the letters; a
\* class ranks by its first letter.
Rankings == {<<"a", "b">>}
NoConfig == <<>>

Rank(env, class) ==
    IF class = <<>> THEN 0 ELSE CHOOSE i \in 1..Len(env) : env[i] = class[1]

RECURSIVE Insert(_, _, _)
Insert(env, sorted, class) ==
    IF sorted = <<>> THEN <<class>>
    ELSE IF Rank(env, class) < Rank(env, Head(sorted))
         THEN <<class>> \o sorted
         ELSE <<Head(sorted)>> \o Insert(env, Tail(sorted), class)

RECURSIVE SortByRank(_, _)
SortByRank(env, classes) ==
    IF classes = <<>> THEN <<>>
    ELSE Insert(env, SortByRank(env, SubSeq(classes, 1, Len(classes) - 1)),
                classes[Len(classes)])

RECURSIVE Join(_)
Join(classes) ==
    IF classes = <<>> THEN <<>>
    ELSE IF Len(classes) = 1 THEN classes[1]
    ELSE classes[1] \o <<WS>> \o Join(Tail(classes))

\* sortClasses (sorting.mjs): the classes of text in canonical order
sortClasses(text, env) ==
    Join(SortByRank(env, SelectSeq(Split(text), LAMBDA c : c # <<>>)))

\* ------------------------------------------------------------ decorations
\* The decoration state a callback reads and writes:
\*   active = activeDecorationTypes, decs = decorationTypes, cycles = cycles.
\* A cycle is the listener/timer pair one match registered:
\*   originalText  the editorText its listener closes over,
\*   listening     its listener is registered,
\*   timerPending  its timer has not expired,
\*   retired       (history) clearDecorations ran since it was armed, called by
\*                 its listener or by the configuration listener.
Color0 == "textLink.activeForeground"
Colors == {Color0, "errorForeground"}
TimeoutSeconds == {1, 7}

Occurrences(seq, x) == Cardinality({i \in DOMAIN seq : seq[i] = x})

\* a pair with its listener disposed and its timer expired is referred to by
\* nothing
Collect(cs) == SelectSeq(cs, LAMBDA c : c.listening \/ c.timerPending)

\* clearDecorations that disposes the handles and keeps the array
clearDecorations_KeepArray(st) ==
    [st EXCEPT !.decs = [h \in DOMAIN st.decs |->
                           [st.decs[h] EXCEPT !.disposed = @ + Occurrences(st.active, h)]]]

\* clearDecorations(): dispose every handle of the array, then empty it
clearDecorations(st) ==
    [st EXCEPT !.decs = [h \in DOMAIN st.decs |->
                           [st.decs[h] EXCEPT !.disposed = @ + Occurrences(st.active, h)]],
               !.active = <<>>]

\* the .map callback of highlightMovedClasses over ranges[k..]. The range
\* [startPos, endPos) goes to editor.setDecorations and stays with the editor;
\* positionAt always yields a Position, so every handle created is pushed.
RECURSIVE Decorate(_, _, _, _, _)
Decorate(st, startPosition, ranges, k, color) ==
    IF k > Len(ranges) THEN st
    ELSE LET decorationType == [color |-> color, disposed |-> 0]
             decs2 == Append(st.decs, decorationType)
         IN  Decorate([st EXCEPT !.decs = decs2,
                                 !.active = Append(st.active, Len(decs2))],
                      startPosition, ranges, k + 1, color)

\* highlightMovedClasses(startPosition, editor, classes)
highlightMovedClasses(st, startPosition, classes, color) ==
    IF Len(classes) = 0 THEN st
    ELSE Decorate(st, startPosition,
                  SelectSeq(classes, LAMBDA classObj : classObj.charStart # -1),
                  1, color)

\* the registration that is never made
ArmCondition_Never(moved, st) == FALSE

\* the condition under which a match registers its listener and its timer
ArmCondition(moved, st) == Len(moved) = Len(st.active)

\* the rest of the callback given to getTextMatch, once movedClasses is known:
\* highlight, then register the listener and the timer
AfterDiff(st, editorText, startPosition, moved, color) ==
    LET st1 == highlightMovedClasses(st, startPosition, moved, color)
    IN  IF ArmCondition(moved, st1)
        THEN [st1 EXCEPT !.cycles = Append(@,
                 [originalText |-> editorText, listening |-> TRUE,
                  timerPending |-> TRUE, retired |-> FALSE])]
        ELSE st1

\* the callback given to getTextMatch, for one match
MatchCallback(st, editorText, match, env, color) ==
    LET sortedText == sortClasses(match.text, env)
    IN  AfterDiff(st, editorText, match.startPosition,
                  findMovedClasses(match.text, sortedText), color)

\* for (const matcher of matchers) getTextMatch(...): the matches k.. in order
RECURSIVE ForEachMatch(_, _, _, _, _, _)
ForEachMatch(st, editorText, matches, k, env, color) ==
    IF k > Len(matches) THEN st
    ELSE ForEachMatch(MatchCallback(st, editorText, matches[k], env, color),
                      editorText, matches, k + 1, env, color)

\* the listener of cycle i, called for a change of document d
ListenerCallback(st, i, d, editor, texts) ==
    IF editor = NoEditor \/ d # editor THEN st
    ELSE IF texts[editor] = st.cycles[i].originalText
         THEN [clearDecorations(st) EXCEPT !.cycles[i].listening = FALSE,
                                           !.cycles[i].retired = TRUE]
         ELSE st

\* workspace.onDidChangeTextDocument fires: the registered listeners i.. run
\* in registration order
RECURSIVE Dispatch(_, _, _, _, _)
Dispatch(st, i, d, editor, texts) ==
    IF i > Len(st.cycles) THEN st
    ELSE Dispatch(IF st.cycles[i].listening
                  THEN ListenerCallback(st, i, d, editor, texts) ELSE st,
                  i + 1, d, editor, texts)

\* the timer callback that forgets to dispose the listener
TimerCallback_KeepListener(st, i) ==
    [clearDecorations(st) EXCEPT !.cycles[i].timerPending = FALSE]

\* the timer callback that only disposes the listener
TimerCallback_NoClear(st, i) ==
    [st EXCEPT !.cycles[i].listening = FALSE, !.cycles[i].timerPending = FALSE]

\* the setTimeout callback of cycle i
TimerCallback(st, i) ==
    [clearDecorations(st) EXCEPT !.cycles[i].listening = FALSE,
                                 !.cycles[i].timerPending = FALSE]

\* the configuration handler that stores the color and leaves the decorations
ConfigColor_NoClear(st, affectsColor, color, current) ==
    [color |-> IF affectsColor THEN color ELSE current, st |-> st]

\* the onDidChangeConfiguration handler, highlightColor part: the new color
\* and the new decoration state
ConfigColor(st, affectsColor, color, current) ==
    IF affectsColor
    THEN [color |-> color,
          st |-> [clearDecorations(st) EXCEPT !.cycles =
                     [i \in DOMAIN @ |-> [@[i] EXCEPT !.retired = TRUE]]]]
    ELSE [color |-> current, st |-> st]

\* the onDidChangeConfiguration handler, highlightTimeout part
ConfigTimeout(affectsTimeout, seconds, current) ==
    IF affectsTimeout THEN seconds * 1000 ELSE current

\* ------------------------------------------------------------ matchers
\* An entry of the classRegex setting (LangConfig): one rule, a list of rules,
\* the empty string, or nothing (undefined).
RuleX == "ruleX"
RuleY == "ruleY"
EntryX == [kind |-> "rule", rules |-> <<RuleX>>]
EntryY == [kind |-> "rule", rules |-> <<RuleY>>]
EntryXY == [kind |-> "list", rules |-> <<RuleX, RuleY>>]
EntryEmptyString == [kind |-> "string", rules |-> <<"">>]
UndefinedEntry == [kind |-> "undefined", rules |-> <<>>]
Entries == {EntryX, EntryY, EntryXY, EntryEmptyString}

LangIds == {"html", "vue"}

\* langConfig[id]: undefined for an identifier the object has no property for
Lookup(catalog, id) == IF id \in DOMAIN catalog THEN catalog[id] ELSE UndefinedEntry

\* a value || takes: neither undefined nor the empty string
Truthy(entry) == entry # UndefinedEntry /\ entry # EntryEmptyString

\* langConfig[editorLangId] || langConfig['html']
ResolveEntry(catalog, id) ==
    IF Truthy(Lookup(catalog, id)) THEN Lookup(catalog, id) ELSE Lookup(catalog, "html")

\* buildMatchers (utils.mjs): the entry as a list of rules, empty for nothing
buildMatchers(entry) == entry.rules

\* const matchers = buildMatchers(<entry>)
Matchers(entry) == [entry |-> entry, rules |-> buildMatchers(entry)]

\* the setting as the documents of the other specifications have it: rules for
\* html, every document html
HtmlOnly ==
    /\ langConfig = [id \in {"html"} |-> EntryX]
    /\ editorLangId = [d \in Docs |-> "html"]
    /\ matchers = Matchers(EntryX)

\* ------------------------------------------------------------ state machine
St == [active |-> activeDecorationTypes, decs |-> decorationTypes, cycles |-> cycles]

Apply(st) ==
    /\ activeDecorationTypes' = st.active
    /\ decorationTypes' = st.decs
    /\ cycles' = Collect(st.cycles)

\* activate that writes no log line
ActivateOutput_Silent(folder) == "none"

\* what activate(context) writes: a log line when there is no workspace folder
ActivateOutput(folder) == IF folder THEN "none" ELSE "log"

\* the missing-configuration branch that never shows the notice
ConfigNotFoundOutput_Silent(ignore) == "none"

\* if (!tailwindConfig): the error notice unless IgnoreConfigNotFound
ConfigNotFoundOutput(ignore) == IF ignore THEN "none" ELSE "error"

\* the state after the module has loaded and activate(context) has returned
InitExtension ==
    /\ currentHighlightColor = Color0
    /\ currentHighlightTimeout = 7000
    /\ activeDecorationTypes = <<>>
    /\ decorationTypes = <<>>
    /\ cycles = <<>>
    /\ output = ActivateOutput(workspaceFolder)

\* a workspace folder is open and the settings have their defaults
Init ==
    /\ workspaceFolder = TRUE
    /\ IgnoreConfigNotFound = FALSE
    /\ InitExtension
    /\ docText \in [Docs -> DocTexts]
    /\ activeEditor \in Docs \cup {NoEditor}
    /\ arg1 = <<>>
    /\ arg2 = <<>>
    /\ movedClasses = <<>>
    /\ pc = "idle"
    /\ HtmlOnly

\* the command tailwind-raw-reorder.sortTailwindClasses on the editor of d
SortTailwindClasses(d, inWorkspace, tailwindConfig) ==
    /\ workspaceFolder
    /\ activeEditor = d
    /\ LET editorText == docText[d]
       IN  IF ~inWorkspace
           THEN /\ output' = "log"
                /\ UNCHANGED <<activeDecorationTypes, decorationTypes, cycles, docText>>
           ELSE IF tailwindConfig = NoConfig
           THEN /\ output' = ConfigNotFoundOutput(IgnoreConfigNotFound)
                /\ UNCHANGED <<activeDecorationTypes, decorationTypes, cycles, docText>>
           ELSE LET edited == [docText EXCEPT ![d] =
                                  [k \in DOMAIN editorText |->
                                      sortClasses(editorText[k], tailwindConfig)]]
                    st0 == ForEachMatch(St, editorText, getTextMatch(editorText), 1,
                                        tailwindConfig, currentHighlightColor)
                    \* the edit is applied when the callback of editor.edit has
                    \* returned; a text that changed is notified to the listeners
                    st == IF edited = docText THEN st0
                          ELSE Dispatch(st0, 1, d, activeEditor, edited)
                IN  /\ Len(st.cycles) <= MaxCycles
                    /\ Len(st.decs) <= MaxHandles
                    /\ Apply(st)
                    /\ docText' = edited
                    /\ output' = "none"
    /\ UNCHANGED <<workspaceFolder, IgnoreConfigNotFound, currentHighlightColor,
                   currentHighlightTimeout, activeEditor, arg1, arg2, movedClasses, pc>>
    /\ UNCHANGED resolverVars

\* regex.test(editorText) of the selection command: the text holds a class
RegexTest(text) == \E c \in Range(Split(text)) : c # <<>>

\* the command tailwind-raw-reorder.sortTailwindClassesOnSelection with the
\* k-th class list of d selected
SortTailwindClassesOnSelection(d, k, tailwindConfig) ==
    /\ workspaceFolder
    /\ activeEditor = d
    /\ k \in DOMAIN docText[d]
    /\ LET editorText == docText[d][k]
       IN  IF tailwindConfig = NoConfig
           THEN /\ output' = ConfigNotFoundOutput(IgnoreConfigNotFound)
                /\ UNCHANGED <<activeDecorationTypes, decorationTypes, cycles, docText>>
           ELSE LET sortedText == IF RegexTest(editorText)
                                  THEN sortClasses(editorText, tailwindConfig)
                                  ELSE editorText
                    edited == [docText EXCEPT ![d][k] = sortedText]
                    st == IF edited = docText THEN St
                          ELSE Dispatch(St, 1, d, activeEditor, edited)
                IN  /\ Apply(st)
                    /\ docText' = edited
                    /\ output' = "none"
    /\ UNCHANGED <<workspaceFolder, IgnoreConfigNotFound, currentHighlightColor,
                   currentHighlightTimeout, activeEditor, arg1, arg2, movedClasses, pc>>
    /\ UNCHANGED resolverVars

\* document d changes to text (or a change notification fires with its text
\* as it is); every registered listener is called
ChangeDocument(d, text) ==
    /\ docText' = [docText EXCEPT ![d] = text]
    /\ Apply(Dispatch(St, 1, d, activeEditor, docText'))
    /\ UNCHANGED <<workspaceFolder, IgnoreConfigNotFound, currentHighlightColor,
                   currentHighlightTimeout, activeEditor, output,
                   arg1, arg2, movedClasses, pc>>
    /\ UNCHANGED resolverVars

\* the user shows another editor, or none
SwitchEditor(e) ==
    /\ e # activeEditor
    /\ activeEditor' = e
    /\ UNCHANGED <<workspaceFolder, IgnoreConfigNotFound, currentHighlightColor,
                   currentHighlightTimeout, activeDecorationTypes, decorationTypes,
                   cycles, docText, output, arg1, arg2, movedClasses, pc>>
    /\ UNCHANGED resolverVars

\* the timer of cycle i expires. Its delay is the currentHighlightTimeout read
\* when it was armed, which the configuration may change between two arms, so
\* pending timers can expire in any order.
TimerFires(i) ==
    /\ i \in DOMAIN cycles
    /\ cycles[i].timerPending
    /\ Apply(TimerCallback(St, i))
    /\ UNCHANGED <<workspaceFolder, IgnoreConfigNotFound, currentHighlightColor,
                   currentHighlightTimeout, docText, activeEditor, output,
                   arg1, arg2, movedClasses, pc>>
    /\ UNCHANGED resolverVars

\* a configuration-change notification
ChangeConfiguration(affectsColor, color, affectsTimeout, seconds) ==
    /\ workspaceFolder
    /\ LET r == ConfigColor(St, affectsColor, color, currentHighlightColor)
       IN  /\ currentHighlightColor' = r.color
           /\ Apply(r.st)
    /\ currentHighlightTimeout' =
          ConfigTimeout(affectsTimeout, seconds, currentHighlightTimeout)
    /\ UNCHANGED <<workspaceFolder, IgnoreConfigNotFound, docText, activeEditor,
                   output, arg1, arg2, movedClasses, pc>>
    /\ UNCHANGED resolverVars

Next ==
    \/ \E d \in Docs, tailwindConfig \in Rankings :
          SortTailwindClasses(d, TRUE, tailwindConfig)
    \/ \E d \in Docs : \E text \in DocTexts \cup {docText[d]} : ChangeDocument(d, text)
    \/ \E e \in Docs \cup {NoEditor} : SwitchEditor(e)
    \/ \E i \in 1..MaxCycles : TimerFires(i)
    \/ \E affectsColor \in BOOLEAN, color \in Colors,
          affectsTimeout \in BOOLEAN, seconds \in TimeoutSeconds :
          ChangeConfiguration(affectsColor, color, affectsTimeout, seconds)

Spec == Init /\ [][Next]_vars

\* every pending timer expires in the end
FairSpec == Spec /\ \A i \in 1..MaxCycles : WF_vars(TimerFires(i))

\* ------------------------------------------- sorts of one document only
\* the document the sort command is run on; the other one is only shown and
\* edited
SortedDoc == "d1"
OtherDoc == "d2"

NextSingleDoc ==
    \/ \E tailwindConfig \in Rankings : SortTailwindClasses(SortedDoc, TRUE, tailwindConfig)
    \/ \E d \in Docs : \E text \in DocTexts \cup {docText[d]} : ChangeDocument(d, text)
    \/ \E e \in Docs \cup {NoEditor} : SwitchEditor(e)
    \/ \E i \in 1..MaxCycles : TimerFires(i)
    \/ \E affectsColor \in BOOLEAN, color \in Colors,
          affectsTimeout \in BOOLEAN, seconds \in TimeoutSeconds :
          ChangeConfiguration(affectsColor, color, affectsTimeout, seconds)

SingleDocSpec == Init /\ [][NextSingleDoc]_vars

\* ------------------------------------------------------ the commands
\* the extension loaded with or without a workspace folder, with either value
\* of the IgnoreConfigNotFound setting
InitCommand ==
    /\ workspaceFolder \in BOOLEAN
    /\ IgnoreConfigNotFound \in BOOLEAN
    /\ InitExtension
    /\ docText \in [Docs -> DocTexts]
    /\ activeEditor \in Docs \cup {NoEditor}
    /\ arg1 = <<>>
    /\ arg2 = <<>>
    /\ movedClasses = <<>>
    /\ pc = "idle"
    /\ HtmlOnly

\* the commands run on documents inside and outside the workspace folders,
\* with and without a resolvable tailwind config
NextCommand ==
    \/ \E d \in Docs, inWorkspace \in BOOLEAN, tailwindConfig \in Rankings \cup {NoConfig} :
          SortTailwindClasses(d, inWorkspace, tailwindConfig)
    \/ \E d \in Docs : \E k \in DOMAIN docText[d], tailwindConfig \in Rankings \cup {NoConfig} :
          SortTailwindClassesOnSelection(d, k, tailwindConfig)
    \/ \E d \in Docs : \E text \in DocTexts \cup {docText[d]} : ChangeDocument(d, text)
    \/ \E e \in Docs \cup {NoEditor} : SwitchEditor(e)
    \/ \E i \in 1..MaxCycles : TimerFires(i)
    \/ \E affectsColor \in BOOLEAN, color \in Colors,
          affectsTimeout \in BOOLEAN, seconds \in TimeoutSeconds :
          ChangeConfiguration(affectsColor, color, affectsTimeout, seconds)

CommandSpec == InitCommand /\ [][NextCommand]_vars

\* ------------------------------------------------- one matcher resolution
OtherLangId == "svelte"

\* the objects the classRegex setting can be: entries for some of LangIds
Catalogs == UNION {[S -> Entries] : S \in SUBSET LangIds}

\* a command about to build its matchers, for any classRegex setting and any
\* language of the documents
InitResolve ==
    /\ workspaceFolder = TRUE
    /\ IgnoreConfigNotFound = FALSE
    /\ InitExtension
    /\ docText = [d \in Docs |-> <<BA, AB>>]
    /\ activeEditor \in Docs
    /\ arg1 = <<>>
    /\ arg2 = <<>>
    /\ movedClasses = <<>>
    /\ pc = "command"
    /\ langConfig \in Catalogs
    /\ editorLangId \in [Docs -> LangIds \cup {OtherLangId}]
    /\ matchers = Matchers(UndefinedEntry)

\* const matchers = buildMatchers(langConfig[editorLangId] || langConfig['html'])
\* in the command run on the editor of d
BuildMatchers(d) ==
    /\ pc = "command"
    /\ activeEditor = d
    /\ matchers' = Matchers(ResolveEntry(langConfig, editorLangId[d]))
    /\ pc' = "matchers"
    /\ UNCHANGED <<workspaceFolder, IgnoreConfigNotFound, currentHighlightColor,
                   currentHighlightTimeout, activeDecorationTypes, decorationTypes,
                   cycles, docText, activeEditor, output, arg1, arg2, movedClasses,
                   langConfig, editorLangId>>

NextResolve == \E d \in Docs : BuildMatchers(d)

ResolveSpec == InitResolve /\ [][NextResolve]_vars

\* ------------------------------------------------- one findMovedClasses call
P2 == <<"p", "-", "2">>
P4 == <<"p", "-", "4">>
TextRed == <<"t", "e", "x", "t", "-", "r", "e", "d">>
BgWhite == <<"b", "g", "-", "w", "h", "i", "t", "e">>
Flex == <<"f", "l", "e", "x">>
InlineFlex == <<"i", "n", "l", "i", "n", "e", "-">> \o Flex

ReorderA == Join(<<P2, TextRed, BgWhite>>)
ReorderB == Join(<<BgWhite, P2, TextRed>>)

ChangedA == Join(<<P2, TextRed>>)
ChangedB == Join(<<P4, TextRed>>)

Examples ==
    {<<ReorderA, ReorderB>>, <<P2, Join(<<InlineFlex, Flex>>)>>, <<ChangedA, ChangedB>>}

DiffInputs ==
    ((Strings(MaxLenA) \cup {Undefined}) \X (Strings(MaxLen) \cup {Undefined}))
        \cup Examples

\* a match callback about to call findMovedClasses(arg1, arg2), no decoration
\* live
InitDiff ==
    /\ workspaceFolder = TRUE
    /\ IgnoreConfigNotFound = FALSE
    /\ InitExtension
    /\ docText = [d \in Docs |-> <<BA, AB>>]
    /\ activeEditor = "d1"
    /\ \E in \in DiffInputs : arg1 = in[1] /\ arg2 = in[2]
    /\ movedClasses = <<>>
    /\ pc = "call"
    /\ HtmlOnly

\* let movedClasses = findMovedClasses(text, sortedText)
FindMoved ==
    /\ pc = "call"
    /\ movedClasses' = findMovedClasses(arg1, arg2)
    /\ pc' = "diffed"
    /\ UNCHANGED <<workspaceFolder, IgnoreConfigNotFound, currentHighlightColor,
                   currentHighlightTimeout, activeDecorationTypes, decorationTypes,
                   cycles, docText, activeEditor, output, arg1, arg2>>
    /\ UNCHANGED resolverVars

\* highlightMovedClasses(startPosition, editor, movedClasses) and the
\* registration that follows it
HighlightMoved ==
    /\ pc = "diffed"
    /\ Apply(AfterDiff(St, docText[activeEditor], 1, movedClasses,
                       currentHighlightColor))
    /\ pc' = "done"
    /\ UNCHANGED <<workspaceFolder, IgnoreConfigNotFound, currentHighlightColor,
                   currentHighlightTimeout, docText, activeEditor, output,
                   arg1, arg2, movedClasses>>
    /\ UNCHANGED resolverVars

NextDiff == FindMoved \/ HighlightMoved

DiffSpec == InitDiff /\ [][NextDiff]_vars

\* ------------------------------------------------------------ properties
Live == {h \in DOMAIN decorationTypes : decorationTypes[h].disposed = 0}

\* the revert trigger of pair i: a change notification for the document of the
\* active editor, whose text is now the text the listener closed over
RevertOf(i) ==
    /\ cycles[i].listening
    /\ \E d \in Docs : \E text \in DocTexts \cup {docText[d]} :
          /\ ChangeDocument(d, text)
          /\ activeEditor = d
          /\ text = cycles[i].originalText

\* C1: when the revert trigger of an armed pair fires, every handle is
\* disposed, activeDecorationTypes is empty, the pair's listener is
\* deregistered and the pair's timer is cancelled.
C1_RevertDisarmsTimer ==
    [][\A i \in DOMAIN cycles :
          RevertOf(i) =>
             /\ activeDecorationTypes' = <<>>
             /\ \A h \in Range(activeDecorationTypes) : decorationTypes'[h].disposed = 1
             /\ \A j \in DOMAIN cycles' :
                   cycles'[j].originalText = cycles[i].originalText =>
                      ~cycles'[j].listening /\ ~cycles'[j].timerPending]_vars

\* C2: when the timer of a pair fires, every handle of activeDecorationTypes
\* is disposed, the array is empty and the pair's listener is deregistered; a
\* registered listener always belongs to a pair whose timer is pending, so no
\* later change retires through the listener of an expired pair.
C2_TimeoutRetires ==
    /\ [](\A j \in DOMAIN cycles : cycles[j].listening => cycles[j].timerPending)
    /\ [][\A i \in 1..MaxCycles :
             TimerFires(i) =>
                /\ activeDecorationTypes' = <<>>
                /\ \A h \in Range(activeDecorationTypes) :
                      decorationTypes'[h].disposed = 1
                /\ Len(cycles') = Len(cycles) - 1]_vars

\* C2 witness: handles were created, every pair that was armed has expired,
\* and every handle is disposed
C2_Witness ==
    /\ decorationTypes # <<>>
    /\ cycles = <<>>
    /\ Live = {}
    /\ currentHighlightColor = Color0

\* C3: a configuration change that affects the highlight color disposes every
\* handle of activeDecorationTypes in that step, leaves the array empty and
\* stores the new color; hence a live handle always has the current color.
C3_ColorChangeRetires ==
    /\ [](\A h \in Range(activeDecorationTypes) :
             decorationTypes[h].color = currentHighlightColor)
    /\ [][\A color \in Colors, affectsTimeout \in BOOLEAN, seconds \in TimeoutSeconds :
             ChangeConfiguration(TRUE, color, affectsTimeout, seconds) =>
                /\ activeDecorationTypes' = <<>>
                /\ \A h \in Range(activeDecorationTypes) :
                      decorationTypes'[h].disposed = 1
                /\ currentHighlightColor' = color]_vars

\* C3 witness: two pairs in flight were retired by a color change (their
\* listeners are still registered), and the handles are disposed
C3_Witness ==
    /\ Len(cycles) >= 2
    /\ \A i \in DOMAIN cycles : cycles[i].listening /\ cycles[i].retired
    /\ decorationTypes # <<>>
    /\ Live = {}
    /\ currentHighlightColor # Color0

\* C4: exactly one retirement per pair: neither the timer nor the revert
\* listener of a pair calls clearDecorations once the pair has been retired
\* (by its listener or by a color change).
C4_OneRetirementPerCycle ==
    [][\A i \in DOMAIN cycles :
          (TimerFires(i) \/ RevertOf(i)) => ~cycles[i].retired]_vars

Disposed(h) == h \in DOMAIN decorationTypes /\ decorationTypes[h].disposed >= 1

\* C5: every handle created is disposed in the end and activeDecorationTypes
\* becomes empty again, given only that pending timers expire.
C5_HandlesEventuallyDisposed ==
    /\ [](activeDecorationTypes # <<>> => <>(activeDecorationTypes = <<>>))
    /\ \A h \in 1..MaxHandles : [](h \in DOMAIN decorationTypes => <>Disposed(h))

\* C5 witness: handles are live while a timer is pending
C5_Witness ==
    /\ Len(activeDecorationTypes) >= 2
    /\ \E i \in DOMAIN cycles : cycles[i].timerPending

\* C6: activeDecorationTypes holds exactly the handles created and not yet
\* disposed, each once; no handle is disposed twice; clearDecorations on an
\* empty array changes nothing.
C6_ActiveAreTheLiveHandles ==
    /\ Range(activeDecorationTypes) = Live
    /\ \A i, j \in DOMAIN activeDecorationTypes :
          activeDecorationTypes[i] = activeDecorationTypes[j] => i = j
    /\ \A h \in DOMAIN decorationTypes : decorationTypes[h].disposed <= 1
    /\ activeDecorationTypes = <<>> => clearDecorations(St) = St

\* C6 witness: a disposed handle and a live one
C6_Witness ==
    /\ Live # {}
    /\ \E h \in DOMAIN decorationTypes : decorationTypes[h].disposed = 1

\* ------------------------------------------- properties of findMovedClasses
\* findMovedClasses(arg1, arg2) has returned movedClasses, past its guard
Returned == pc # "call" /\ ~Falsy(arg1) /\ ~Falsy(arg2)

ClassNames(classes) == [k \in DOMAIN classes |-> classes[k].className]

Distinct(seq) == \A i, j \in DOMAIN seq : seq[i] = seq[j] => i = j

IsPermutation(s, t) ==
    /\ Len(s) = Len(t)
    /\ \A x \in Range(s) \cup Range(t) : Occurrences(s, x) = Occurrences(t, x)

\* the subsequence of seq at the indices in S
Pick(seq, S) ==
    LET f[k \in 0..Len(seq)] ==
            IF k = 0 THEN <<>>
            ELSE IF k \in S THEN Append(f[k - 1], seq[k]) ELSE f[k - 1]
    IN  f[Len(seq)]

Subsequences(seq) == {Pick(seq, S) : S \in SUBSET DOMAIN seq}

\* the common subsequences of s and t of the greatest length
LongestCommon(s, t) ==
    LET common == Subsequences(s) \cap Subsequences(t)
    IN  {c \in common : \A e \in common : Len(e) <= Len(c)}

\* the offset at which each piece of Split(str) begins in str
RECURSIVE TokenStartsFrom(_, _, _, _)
TokenStartsFrom(str, i, curStart, acc) ==
    IF i > Len(str) THEN Append(acc, curStart)
    ELSE IF str[i] = WS
         THEN IF i > 1 /\ str[i - 1] = WS
              THEN TokenStartsFrom(str, i + 1, i, acc)
              ELSE TokenStartsFrom(str, i + 1, i, Append(acc, curStart))
         ELSE TokenStartsFrom(str, i + 1, curStart, acc)

TokenStarts(str) == TokenStartsFrom(str, 1, 0, <<>>)

\* the k-th token of str with the offset at which it begins
TokensAt(str) ==
    [k \in DOMAIN Split(str) |->
        [className |-> Split(str)[k], charStart |-> TokenStarts(str)[k]]]

\* C7 as stated: whenever the tokens of arg2 are a permutation of the tokens
\* of arg1, findMovedClasses returns the empty list.
C7_PureReorderingIsEmpty ==
    (Returned /\ IsPermutation(Split(arg1), Split(arg2))) => movedClasses = <<>>

\* C7 amended: for pairwise distinct tokens, a permutation yields the empty
\* list exactly when it leaves the order as it was; the reordering
\* "p-2 text-red bg-white" -> "bg-white p-2 text-red" yields bg-white at 0.
C7_ReorderingFlagsMovedTokens ==
    /\ (Returned /\ Distinct(Split(arg1)) /\ IsPermutation(Split(arg1), Split(arg2)))
          => (movedClasses = <<>> <=> Split(arg1) = Split(arg2))
    /\ (Returned /\ arg1 = ReorderA /\ arg2 = ReorderB)
          => movedClasses = <<[className |-> BgWhite, charStart |-> 0]>>

\* C7 witness: the reordering of the example has been diffed and highlighted
C7_Witness ==
    /\ pc = "done"
    /\ arg1 = ReorderA
    /\ arg2 = ReorderB
    /\ movedClasses # <<>>
    /\ Len(activeDecorationTypes) = 1

\* C8: the names returned are the tokens of arg2, in order, whose value is not
\* in lcs(tokens of arg1, tokens of arg2); that set is the value set of a
\* longest common subsequence; each value is returned for all of its
\* occurrences in arg2 or for none.
C8_ReturnsTokensOutsideLcs ==
    Returned =>
       LET classes1 == Split(arg1)
           classes2 == Split(arg2)
           commonClasses == lcs(classes1, classes2)
           names == ClassNames(movedClasses)
       IN  /\ names = SelectSeq(classes2, LAMBDA c : c \notin commonClasses)
           /\ commonClasses \in {Range(c) : c \in LongestCommon(classes1, classes2)}
           /\ \A c \in Range(classes2) :
                 Occurrences(names, c) = IF c \in commonClasses THEN 0
                                         ELSE Occurrences(classes2, c)

\* C8 witness: a value kept and a value returned twice
C8_Witness ==
    /\ pc = "done"
    /\ Returned
    /\ \E c \in lcs(Split(arg1), Split(arg2)) : c # <<>>
    /\ \E c \in Range(Split(arg2)) :
          c # <<>> /\ Occurrences(ClassNames(movedClasses), c) = 2

\* C9: every class returned carries the offset at which that token begins in
\* arg2, so the offsets increase strictly along the list (arg2 without
\* leading or trailing whitespace).
C9_CharStartIsTokenStart ==
    (Returned /\ <<>> \notin Range(Split(arg2))) =>
       /\ movedClasses =
             SelectSeq(TokensAt(arg2),
                       LAMBDA t : t.className \notin lcs(Split(arg1), Split(arg2)))
       /\ \A i, j \in DOMAIN movedClasses :
             i < j => movedClasses[i].charStart < movedClasses[j].charStart

\* C10: identical token sequences yield the empty list, and no decoration
\* handle is created for it.
C10_SameTokensNothingMoved ==
    (Returned /\ Split(arg1) = Split(arg2)) =>
       /\ movedClasses = <<>>
       /\ decorationTypes = <<>>
       /\ activeDecorationTypes = <<>>

\* C10 witness: two texts that differ only in their whitespace have been
\* diffed and the highlighting has run
C10_Witness ==
    /\ pc = "done"
    /\ ~Falsy(arg1)
    /\ arg1 # arg2
    /\ Len(Split(arg1)) >= 2
    /\ <<>> \notin Range(Split(arg1))
    /\ Split(arg1) = Split(arg2)

\* C11: every token of arg2 whose value is no token of arg1 is returned with
\* the offset at which it begins in arg2, no token of the lcs set is
\* returned, and "p-2 text-red" -> "p-4 text-red" yields p-4 at 0 (arg2
\* without leading or trailing whitespace).
C11_NewTokensReturnedAtTheirOffset ==
    (Returned /\ <<>> \notin Range(Split(arg2))) =>
       /\ \A k \in DOMAIN Split(arg2) :
             Split(arg2)[k] \notin Range(Split(arg1))
                => TokensAt(arg2)[k] \in Range(movedClasses)
       /\ \A k \in DOMAIN movedClasses :
             movedClasses[k].className \notin lcs(Split(arg1), Split(arg2))
       /\ (arg1 = ChangedA /\ arg2 = ChangedB)
             => movedClasses = <<[className |-> P4, charStart |-> 0]>>

\* C13: when an argument of findMovedClasses is the empty string or absent,
\* the result is the empty list and the match creates no decoration handle.
C13_DegenerateInputNothingMoved ==
    (pc # "call" /\ (Falsy(arg1) \/ Falsy(arg2))) =>
       /\ movedClasses = <<>>
       /\ decorationTypes = <<>>
       /\ activeDecorationTypes = <<>>

\* C13 witness: the first argument was absent, the second held two classes,
\* and the highlighting has run
C13_Witness ==
    /\ pc = "done"
    /\ arg1 = Undefined
    /\ ~Falsy(arg2)
    /\ Len(Split(arg2)) >= 2
    /\ <<>> \notin Range(Split(arg2))

\* C16: no class is returned with charStart -1, so highlightMovedClasses
\* creates one handle for every class it is given.
C16_NoCharStartMinusOne ==
    Returned =>
       /\ \A k \in DOMAIN movedClasses : movedClasses[k].charStart >= 0
       /\ pc = "done" => /\ Len(decorationTypes) = Len(movedClasses)
                         /\ Len(activeDecorationTypes) = Len(movedClasses)

\* C16 witness: a class returned twice, each occurrence with its handle
C16_Witness ==
    /\ pc = "done"
    /\ Returned
    /\ Len(decorationTypes) >= 2
    /\ \E i, j \in DOMAIN movedClasses :
          /\ i < j
          /\ movedClasses[i].className = movedClasses[j].className
          /\ movedClasses[i].className # <<>>

\* ------------------------------------------------ properties of the commands
\* C12: a reorder-document or reorder-selection command for which
\* getTailwindConfig yields nothing replaces no text, creates no handle, arms
\* no listener or timer and leaves the highlight settings alone; it shows the
\* error notice if and only if IgnoreConfigNotFound is not enabled.
C12_MissingConfigAborts ==
    [][\A d \in Docs :
          (\/ SortTailwindClasses(d, TRUE, NoConfig)
           \/ \E k \in DOMAIN docText[d] : SortTailwindClassesOnSelection(d, k, NoConfig))
          => /\ UNCHANGED <<docText, activeDecorationTypes, decorationTypes, cycles,
                            currentHighlightColor, currentHighlightTimeout>>
             /\ output' = "error" <=> ~IgnoreConfigNotFound]_vars

\* C12 witness: the notice is up while decorations of an earlier sort are live
C12_Witness ==
    /\ output = "error"
    /\ ~IgnoreConfigNotFound
    /\ activeDecorationTypes # <<>>
    /\ cycles # <<>>

\* C14: the entry a command resolves is the catalog's entry for the language
\* of the document whenever the catalog has one, and the entry for "html"
\* otherwise; for the catalog {html: ruleX} and the language vue it is ruleX.
C14_EntryOfLanguageElseHtml ==
    pc = "matchers" =>
       LET id == editorLangId[activeEditor]
       IN  /\ matchers.entry = IF id \in DOMAIN langConfig THEN langConfig[id]
                               ELSE Lookup(langConfig, "html")
           /\ (langConfig = [l \in {"html"} |-> EntryX] /\ id = "vue")
                 => matchers.rules = <<RuleX>>

\* ---------------------------------------- more properties of the decorations
\* the diff of every match of text is empty
NothingMoved(text, env) ==
    \A k \in DOMAIN text : findMovedClasses(text[k], sortClasses(text[k], env)) = <<>>

\* C15: a sort whose matches all have an empty diff registers no listener and
\* arms no timer: the pairs stay as they were.
C15_EmptyDiffArmsNothing ==
    [][\A d \in Docs, tailwindConfig \in Rankings :
          (SortTailwindClasses(d, TRUE, tailwindConfig)
             /\ NothingMoved(docText[d], tailwindConfig))
          => cycles' = cycles]_vars

\* C17: cycles are independent: the timer or the listener of a cycle whose
\* handles have been retired already (by its listener or by a color change)
\* disposes no handle, the live handles being those of later cycles.
C17_RetiredCycleDisposesNothing ==
    [][\A i \in DOMAIN cycles :
          (cycles[i].retired /\ (TimerFires(i) \/ RevertOf(i)))
          => \A h \in DOMAIN decorationTypes :
                decorationTypes'[h].disposed = decorationTypes[h].disposed]_vars

\* C18: while a handle is live, the timer of some pair is pending.
C18_LiveHandlesHaveATimer ==
    activeDecorationTypes # <<>> => \E i \in DOMAIN cycles : cycles[i].timerPending

\* C18 witness: two handles live and one pair: the match that pushed the
\* second handle found the first one live and armed nothing
C18_Witness ==
    /\ Len(activeDecorationTypes) = 2
    /\ Len(cycles) = 1
    /\ cycles[1].timerPending

\* C19: a change notification for a document that was never sorted retires
\* nothing: the handles, the listeners and the timers stay as they were.
C19_OtherDocumentRetiresNothing ==
    [][\A text \in DocTexts \cup {docText[OtherDoc]} :
          ChangeDocument(OtherDoc, text)
          => UNCHANGED <<activeDecorationTypes, decorationTypes, cycles>>]_vars

\* C20: without a workspace folder activate writes a log line and registers
\* nothing, so no handle, listener or timer ever exists and nothing more is
\* written; the reorder-document command run on a file of no workspace folder
\* writes a log line, shows no notice, replaces no text and creates no handle,
\* listener or timer.
C20_NoWorkspaceLogsAndAborts ==
    /\ [](~workspaceFolder =>
             /\ output = "log"
             /\ activeDecorationTypes = <<>>
             /\ decorationTypes = <<>>
             /\ cycles = <<>>)
    /\ [][\A d \in Docs, tailwindConfig \in Rankings \cup {NoConfig} :
             SortTailwindClasses(d, FALSE, tailwindConfig)
             => /\ output' = "log"
                /\ UNCHANGED <<docText, activeDecorationTypes, decorationTypes, cycles,
                               currentHighlightColor, currentHighlightTimeout>>]_vars

\* C20 witness: the log line of a command run on a file of no workspace
\* folder, while the decorations of an earlier sort are live
C20_Witness ==
    /\ workspaceFolder
    /\ output = "log"
    /\ activeDecorationTypes # <<>>
    /\ cycles # <<>>

====
